---------------------------- MODULE Spec2Model ----------------------------
(***************************************************************************)
(* TonSuuChecker: the depth-map volume pipeline of scripts/depth_volume.py *)
(* (main and the functions it calls) and the geometry-calibrated estimate  *)
(* of scripts/box_overlay.py (its main).  Floating-point values are        *)
(* modelled as exact rationals [n |-> numerator, d |-> denominator > 0] in *)
(* lowest terms, NaN as the rational with denominator 0; arrays are        *)
(* functions over 0-based index ranges, as in Python.                      *)
(***************************************************************************)
EXTENDS Integers, Sequences, FiniteSets, TLC

(***************************************************************************)
(* Exact rational arithmetic standing for Python / numpy float arithmetic. *)
(***************************************************************************)
Abs(i) == IF i < 0 THEN -i ELSE i

Max(a, b) == IF a >= b THEN a ELSE b

Min(a, b) == IF a <= b THEN a ELSE b

RECURSIVE GCD(_, _)
GCD(a, b) == IF b = 0 THEN a ELSE GCD(b, a % b)

\* The rational n/d in lowest terms with a positive denominator.
R(n, d) ==
    IF d = 0 THEN [n |-> 1, d |-> 0]
    ELSE LET g == GCD(Abs(n), Abs(d))
             s == IF d < 0 THEN -1 ELSE 1
         IN  [n |-> s * (n \div g), d |-> s * (d \div g)]

Zero == R(0, 1)

\* The value of an operation on a zero denominator.
Undefined == [n |-> 1, d |-> 0]

Defined(a) == a.d # 0

\* The operations cancel common factors before they multiply, so that the
\* intermediate products stay small.
RAdd(a, b) ==
    IF ~Defined(a) \/ ~Defined(b) THEN Undefined
    ELSE LET g == GCD(a.d, b.d)
         IN  R(a.n * (b.d \div g) + b.n * (a.d \div g), (a.d \div g) * b.d)

RNeg(a) == [n |-> -a.n, d |-> a.d]

RSub(a, b) == RAdd(a, RNeg(b))

RMul(a, b) ==
    IF ~Defined(a) \/ ~Defined(b) THEN Undefined
    ELSE LET g1 == GCD(Abs(a.n), b.d)
             g2 == GCD(Abs(b.n), a.d)
         IN  R((a.n \div g1) * (b.n \div g2), (a.d \div g2) * (b.d \div g1))

\* a / b; a zero divisor gives Undefined.
RDiv(a, b) ==
    IF b.n = 0 \/ ~Defined(b) THEN Undefined
    ELSE RMul(a, IF b.n < 0 THEN [n |-> -b.d, d |-> -b.n]
                 ELSE [n |-> b.d, d |-> b.n])

RAbs(a) == [n |-> Abs(a.n), d |-> a.d]

\* Comparisons; one with an Undefined operand is false.
RLt(a, b) ==
    /\ Defined(a) /\ Defined(b)
    /\ LET g == GCD(a.d, b.d)
       IN  a.n * (b.d \div g) < b.n * (a.d \div g)

RLe(a, b) ==
    /\ Defined(a) /\ Defined(b)
    /\ LET g == GCD(a.d, b.d)
       IN  a.n * (b.d \div g) <= b.n * (a.d \div g)

\* int(x) of Python for a float x: truncation toward zero.
RInt(a) == IF a.n >= 0 THEN a.n \div a.d ELSE -((-a.n) \div a.d)


(***************************************************************************)
(* numpy / scipy array primitives.  A 1-D array is a sequence of rationals *)
(* (position i of Python is element i + 1); a 2-D array is a function      *)
(* [0..h-1 -> [0..w-1 -> value]].                                          *)
(***************************************************************************)
\* Python's normalisation of a slice bound i against a length n.
PyBound(i, n) == IF i < 0 THEN Max(i + n, 0) ELSE Min(i, n)

\* The indices selected by the slice  lo:hi  of an axis of length n.
PySlice(lo, hi, n) == PyBound(lo, n) .. (PyBound(hi, n) - 1)

CountLt(s, v) == Cardinality({i \in 1..Len(s) : RLt(s[i], v)})

CountLe(s, v) == Cardinality({i \in 1..Len(s) : RLe(s[i], v)})

\* Element k (0-based) of the array s sorted ascending.
KthSmallest(s, k) ==
    s[CHOOSE i \in 1..Len(s) : CountLt(s, s[i]) <= k /\ k < CountLe(s, s[i])]

\* np.median of a non-empty 1-D array.
np_median(s) ==
    LET n == Len(s)
    IN  IF n % 2 = 1 THEN KthSmallest(s, (n - 1) \div 2)
        ELSE RDiv(RAdd(KthSmallest(s, (n \div 2) - 1), KthSmallest(s, n \div 2)),
                  R(2, 1))

\* np.percentile(s, q), default method "linear", of a non-empty array:
\* the value at the virtual index q/100 * (n - 1) of the sorted array.
np_percentile(s, q) ==
    LET n   == Len(s)
        pos == q * (n - 1)
        lo  == pos \div 100
        hi  == Min(lo + 1, n - 1)
        a   == KthSmallest(s, lo)
        b   == KthSmallest(s, hi)
    IN  RAdd(a, RMul(R(pos % 100, 100), RSub(b, a)))

\* The array <<f[lo], ..., f[hi]>> with every element evaluated once.
RECURSIVE Span(_, _, _)
Span(f, lo, hi) ==
    IF lo > hi THEN <<>>
    ELSE IF lo = hi THEN <<f[lo]>>
    ELSE LET mid == (lo + hi) \div 2
         IN  Span(f, lo, mid) \o Span(f, mid + 1, hi)

ListOf(f, n) == Span(f, 1, n)

\* scipy.ndimage boundary mode "reflect" (d c b a | a b c d | d c b a).
Reflect(i, n) ==
    LET j == i % (2 * n)
    IN  IF j < n THEN j ELSE 2 * n - 1 - j

\* scipy.ndimage.median_filter(a, size=3) of an h x w array.
median_filter(a, h, w) ==
    [r \in 0..(h - 1) |-> [c \in 0..(w - 1) |->
        KthSmallest(ListOf([k \in 1..9 |->
                               a[Reflect(r + ((k - 1) \div 3) - 1, h)]
                                [Reflect(c + ((k - 1) % 3) - 1, w)]], 9), 4)]]

\* scipy.ndimage.uniform_filter1d(s, size) of a 1-D array of length n
\* (a function over 0..n-1): the mean of the window of `size` elements
\* centred at each position.
RECURSIVE WindowSum(_, _, _, _, _)
WindowSum(s, n, i, size, j) ==
    IF j = size THEN Zero
    ELSE RAdd(s[Reflect(i + j - (size \div 2), n)], WindowSum(s, n, i, size, j + 1))

uniform_filter1d(s, n, size) ==
    [i \in 0..(n - 1) |-> RDiv(WindowSum(s, n, i, size, 0), R(size, 1))]

\* The elements of a 2-D array restricted to rows `rows` and columns
\* `cols` (index intervals), flattened in row-major order.
Flatten(a, rows, cols) ==
    LET nr == Cardinality(rows)
        nc == Cardinality(cols)
        r0 == IF nr = 0 THEN 0 ELSE CHOOSE r \in rows : \A q \in rows : r <= q
        c0 == IF nc = 0 THEN 0 ELSE CHOOSE c \in cols : \A q \in cols : c <= q
    IN  ListOf([k \in 1..(nr * nc) |->
                   a[r0 + ((k - 1) \div nc)][c0 + ((k - 1) % nc)]], nr * nc)

\* Sum of the elements lo..hi of a 1-D array (the order of the additions
\* does not change an exact sum), and the arithmetic mean of a non-empty
\* array.
RECURSIVE SeqSum(_, _, _)
SeqSum(s, lo, hi) ==
    IF lo > hi THEN Zero
    ELSE IF lo = hi THEN s[lo]
    ELSE LET mid == (lo + hi) \div 2
         IN  RAdd(SeqSum(s, lo, mid), SeqSum(s, mid + 1, hi))

np_mean(s) == RDiv(SeqSum(s, 1, Len(s)), R(Len(s), 1))

\* np.clip(x, lo, hi) of one element.
np_clip(x, lo, hi) == IF RLt(x, lo) THEN lo ELSE IF RLt(hi, x) THEN hi ELSE x


(***************************************************************************)
(* Program constants.                                                      *)
(***************************************************************************)
\* TAILGATE_HEIGHT_M = 0.30
TAILGATE_HEIGHT_M == R(30, 100)

\* max_cargo_height_m = 0.80
max_cargo_height_m == R(80, 100)

\* The fallback bed box [0.2, 0.2, 0.8, 0.8].
FallbackBox == <<R(2, 10), R(2, 10), R(8, 10), R(8, 10)>>

\* MATERIAL_DENSITIES (t/m3): a dict, here a function over its keys
\* (the Japanese keys romanised).
MATERIAL_DENSITIES ==
    [m \in {"dosha", "As_gara", "Co_gara", "kairyudo_As_gara"} |->
        CASE m = "dosha" -> R(18, 10)
          [] m = "As_gara" -> R(25, 10)
          [] m = "Co_gara" -> R(25, 10)
          [] OTHER -> R(235, 100)]

\* load_truck_specs(): the truckSpecs table of prompt-spec.json, a file of
\* the repository that is read at run time; two classes stand for it.
load_truck_specs ==
    [t \in {"4t", "10t"} |->
        IF t = "4t"
        THEN [bedLength |-> R(34, 10), bedWidth |-> R(206, 100), bedHeight |-> R(32, 100)]
        ELSE [bedLength |-> R(53, 10), bedWidth |-> R(23, 10), bedHeight |-> R(1, 1)]]

(***************************************************************************)
(* Shapes and pixel access.  A depth map is [h, w, px] with px an h x w    *)
(* array of integers (the relative depth values).                          *)
(***************************************************************************)
Rows(a) == Cardinality(DOMAIN a)

Cols(a) == IF Rows(a) = 0 THEN 0 ELSE Cardinality(DOMAIN a[0])

\* depth_map[y, lo:hi] as a 1-D array.
RowSlice(depth_map, y, lo, hi) ==
    LET a == PyBound(lo, depth_map.w)
        b == PyBound(hi, depth_map.w)
    IN  ListOf([k \in 1..Max(b - a, 0) |-> R(depth_map.px[y][a + k - 1], 1)],
               Max(b - a, 0))

(***************************************************************************)
(* compute_floor_plane: the per-row floor depth from the left and right    *)
(* edge strips, smoothed along the rows and broadcast across the columns.  *)
(***************************************************************************)
edge_margin(width) == Max(3, width \div 20)

\* The image columns read by depth_map[y, x1:x1 + margin] and
\* depth_map[y, x2 - margin:x2]; a negative start x2 - margin counts from
\* the right edge of the image.
sampled_columns(depth_map, x1, x2) ==
    LET margin == edge_margin(x2 - x1)
    IN  PySlice(x1, x1 + margin, depth_map.w) \cup
        PySlice(x2 - margin, x2, depth_map.w)

row_floor_raw(depth_map, x1, y1, x2, y2, r) ==
    LET margin     == edge_margin(x2 - x1)
        y          == y1 + r
        left_vals  == RowSlice(depth_map, y, x1, x1 + margin)
        right_vals == RowSlice(depth_map, y, x2 - margin, x2)
        edge_vals  == left_vals \o right_vals
    IN  np_median(edge_vals)

\* tile_row with the row value added to the column index.
tile_row_skewed(v, width) == [c \in 0..(width - 1) |-> RAdd(v, R(c, 1))]

\* np.tile(row_floor_smooth[:, np.newaxis], (1, width)), one row of it.
tile_row(v, width) == [c \in 0..(width - 1) |-> v]

compute_floor_plane(depth_map, x1, y1, x2, y2) ==
    LET height    == y2 - y1
        width     == x2 - x1
        row_floor == [r \in 0..(height - 1) |->
                         row_floor_raw(depth_map, x1, y1, x2, y2, r)]
        row_floor_smooth ==
            uniform_filter1d(row_floor, height, Max(3, height \div 10))
    IN  [r \in 0..(height - 1) |-> tile_row(row_floor_smooth[r], width)]


(***************************************************************************)
(* compute_cargo_height_map: calibrated cargo heights inside the bed box.  *)
(* The result is what the call produces: status "returned" with the height *)
(* map and the calibration factor (some = FALSE stands for None), or       *)
(* status "IndexError" when np.percentile is given the empty interior of a *)
(* crop of fewer than 7 rows or columns and raises.  regime, p5, p95,      *)
(* floor_offset and divisors record the branch taken (the else branch,     *)
(* "floor_hidden", includes its early return), the statistics it used and  *)
(* the denominators it divided by.                                         *)
(***************************************************************************)
interior_margin(n) == Max(3, n \div 10)

\* floor_visible with the boundary p5 = 0 on the other side.
floor_visible_le(p5) == RLe(p5, Zero)

floor_visible(p5) == RLt(p5, Zero)

\* visible_scale without abs().
visible_scale_signed(bed_height_m, p5) == RDiv(bed_height_m, p5)

visible_scale(bed_height_m, p5) == RDiv(bed_height_m, RAbs(p5))

\* range_degenerate that lets a range of exactly zero through.
range_degenerate_strict(visible_range) == RLt(visible_range, Zero)

range_degenerate(visible_range) == RLe(visible_range, Zero)

\* hidden_scale with the plate width (PLATE_WIDTH_M) for the rim height.
hidden_scale_plate(visible_range) == RDiv(R(44, 100), visible_range)

hidden_scale(visible_range) == RDiv(TAILGATE_HEIGHT_M, visible_range)

\* hidden_floor_offset with the virtual floor above the rim.
hidden_floor_offset_above(bed_height_m, meters_per_depth_unit) ==
    RDiv(bed_height_m, meters_per_depth_unit)

hidden_floor_offset(bed_height_m, meters_per_depth_unit) ==
    RNeg(RDiv(bed_height_m, meters_per_depth_unit))

\* clip_height without the clip.
clip_none(x) == x

clip_height(x) == np_clip(x, Zero, max_cargo_height_m)

height_m(delta_px, floor_offset, meters_per_depth_unit) ==
    clip_height(RMul(RSub(delta_px, floor_offset), meters_per_depth_unit))

\* delta = median_filter(depth_map[y1:y2, x1:x2] - floor_plane, size=3)
filtered_delta(depth_map, floor_plane, x1, y1, x2, y2) ==
    LET h == y2 - y1
        w == x2 - x1
        delta == [r \in 0..(h - 1) |-> [c \in 0..(w - 1) |->
                     RSub(R(depth_map.px[y1 + r][x1 + c], 1), floor_plane[r][c])]]
    IN  median_filter(delta, h, w)

\* interior = delta[margin_y:-margin_y, margin_x:-margin_x], flattened.
interior_of(delta, h, w) ==
    LET margin_y == interior_margin(h)
        margin_x == interior_margin(w)
    IN  Flatten(delta, PySlice(margin_y, -margin_y, h), PySlice(margin_x, -margin_x, w))

NoFactor == [some |-> FALSE, v |-> Zero]

\* np.ones_like(delta) in the place of zeros_like.
ones_like(h, w) == [r \in 0..(h - 1) |-> [c \in 0..(w - 1) |-> R(1, 1)]]

\* np.zeros_like(delta) for an h x w array delta.
zeros_like(h, w) == [r \in 0..(h - 1) |-> [c \in 0..(w - 1) |-> Zero]]

compute_cargo_height_map(depth_map, floor_plane, x1, y1, x2, y2, bed_height_m) ==
    LET h == y2 - y1
        w == x2 - x1
        delta    == filtered_delta(depth_map, floor_plane, x1, y1, x2, y2)
        interior == interior_of(delta, h, w)
        p5       == np_percentile(interior, 5)
        p95      == np_percentile(interior, 95)
        visible_range == RSub(p95, p5)
        zeros    == zeros_like(h, w)
        result(scale, offset, regime, q95, rng, divs) ==
            [status |-> "returned",
             cargo_height_m |-> [r \in 0..(h - 1) |-> [c \in 0..(w - 1) |->
                                    height_m(delta[r][c], offset, scale)]],
             meters_per_depth_unit |-> [some |-> TRUE, v |-> scale],
             regime |-> regime, p5 |-> p5, p95 |-> q95, visible_range |-> rng,
             floor_offset |-> offset, divisors |-> divs]
    IN  IF Len(interior) = 0
        THEN [status |-> "IndexError", cargo_height_m |-> zeros,
              meters_per_depth_unit |-> NoFactor, regime |-> "undefined",
              p5 |-> Zero, p95 |-> Zero, visible_range |-> Zero,
              floor_offset |-> Zero, divisors |-> {}]
        ELSE IF floor_visible(p5)
        THEN result(visible_scale(bed_height_m, p5), p5, "floor_visible",
                    Zero, Zero, {RAbs(p5)})
        ELSE IF range_degenerate(visible_range)
        THEN [status |-> "returned", cargo_height_m |-> zeros,
              meters_per_depth_unit |-> NoFactor, regime |-> "floor_hidden",
              p5 |-> p5, p95 |-> p95, visible_range |-> visible_range,
              floor_offset |-> Zero, divisors |-> {}]
        ELSE LET scale == hidden_scale(visible_range)
             IN  result(scale, hidden_floor_offset(bed_height_m, scale),
                        "floor_hidden", p95, visible_range,
                        {visible_range, scale})


(***************************************************************************)
(* compute_volume_grid: grid integration of the height map.  int(r *       *)
(* cell_h) is the exact floor of r * h / grid_rows, which is what the      *)
(* float product truncates to for every crop size of this model.           *)
(***************************************************************************)
GRID_ROWS == 10

GRID_COLS == 20

\* cell_start that rounds to the nearest pixel.
cell_start_round(i, cell) == RInt(RAdd(RMul(R(i, 1), cell), R(1, 2)))

cell_start(i, cell) == RInt(RMul(R(i, 1), cell))

\* cell_volume with the cell mean capped at max_cargo_height_m.
cell_volume_capped(cargo_height_m, cell_area, cell_h, cell_w, r, c) ==
    LET cell_region == Flatten(cargo_height_m,
                               cell_start(r, cell_h)..(cell_start(r + 1, cell_h) - 1),
                               cell_start(c, cell_w)..(cell_start(c + 1, cell_w) - 1))
    IN  IF Len(cell_region) = 0 THEN Zero
        ELSE RMul(cell_area, np_clip(np_mean(cell_region), Zero, max_cargo_height_m))

\* cell_volume without the test of cell_region.size.
cell_volume_unguarded(cargo_height_m, cell_area, cell_h, cell_w, r, c) ==
    LET cell_region == Flatten(cargo_height_m,
                               cell_start(r, cell_h)..(cell_start(r + 1, cell_h) - 1),
                               cell_start(c, cell_w)..(cell_start(c + 1, cell_w) - 1))
    IN  RMul(cell_area, np_mean(cell_region))

\* cell_volume with the sum of the cell's pixels in the place of their mean.
cell_volume_summed(cargo_height_m, cell_area, cell_h, cell_w, r, c) ==
    LET cell_region == Flatten(cargo_height_m,
                               cell_start(r, cell_h)..(cell_start(r + 1, cell_h) - 1),
                               cell_start(c, cell_w)..(cell_start(c + 1, cell_w) - 1))
    IN  IF Len(cell_region) = 0 THEN Zero
        ELSE RMul(cell_area, SeqSum(cell_region, 1, Len(cell_region)))

cell_volume(cargo_height_m, cell_area, cell_h, cell_w, r, c) ==
    LET r_start == cell_start(r, cell_h)
        r_end   == cell_start(r + 1, cell_h)
        c_start == cell_start(c, cell_w)
        c_end   == cell_start(c + 1, cell_w)
        cell_region == Flatten(cargo_height_m, r_start..(r_end - 1),
                               c_start..(c_end - 1))
    IN  IF Len(cell_region) = 0 THEN Zero
        ELSE RMul(cell_area, np_mean(cell_region))

\* total_volume after the loops over the grid cells, in row-major order.
total_volume(cargo_height_m, cell_area, cell_h, cell_w, grid_rows, grid_cols) ==
    LET cells == ListOf([k \in 1..(grid_rows * grid_cols) |->
                            cell_volume(cargo_height_m, cell_area, cell_h, cell_w,
                                        (k - 1) \div grid_cols, (k - 1) % grid_cols)],
                        grid_rows * grid_cols)
    IN  SeqSum(cells, 1, grid_rows * grid_cols)

compute_volume_grid(cargo_height_m, bed_length, bed_width, grid_rows, grid_cols) ==
    LET h == Rows(cargo_height_m)
        w == Cols(cargo_height_m)
        cell_length == RDiv(bed_length, R(grid_cols, 1))
        cell_width  == RDiv(bed_width, R(grid_rows, 1))
        cell_area   == RMul(cell_length, cell_width)
        cell_h == RDiv(R(h, 1), R(grid_rows, 1))
        cell_w == RDiv(R(w, 1), R(grid_cols, 1))
    IN  IF h = 0 \/ w = 0 THEN [volume |-> Zero, avg_height_m |-> Zero]
        ELSE [volume |-> total_volume(cargo_height_m, cell_area, cell_h, cell_w,
                                      grid_rows, grid_cols),
              avg_height_m |-> np_mean(Flatten(cargo_height_m, 0..(h - 1), 0..(w - 1)))]

\* round(x, ndigits) of Python: to the nearest multiple of 10^-ndigits,
\* ties to the even one.
RECURSIVE Pow10(_)
Pow10(k) == IF k = 0 THEN 1 ELSE 10 * Pow10(k - 1)

py_round(x, ndigits) ==
    LET p    == Pow10(ndigits)
        ip   == IF x.n >= 0 THEN x.n \div x.d ELSE -(((-x.n) + x.d - 1) \div x.d)
        frac == RSub(x, R(ip, 1))
        sc   == RMul(frac, R(p, 1))
        fl   == sc.n \div sc.d
        rem2 == 2 * (sc.n - fl * sc.d)
        q    == IF rem2 < sc.d THEN fl
                ELSE IF rem2 > sc.d THEN fl + 1
                ELSE IF (ip * p + fl) % 2 = 0 THEN fl ELSE fl + 1
    IN  RAdd(R(ip, 1), R(q, p))

(***************************************************************************)
(* query_gemini_regions.  The locator's answer is a record                 *)
(*   kind : "nonzero_exit", "timeout", "not_json" (json.loads raises),     *)
(*          "json_other" (valid JSON that is no object) or "json_object";  *)
(*   data : for a JSON object, a function from the keys it holds to JSON   *)
(*          values [t, items], t one of "null", "number", "list".          *)
(* A list item is [t, v] with t one of "num" (a JSON number v), "numstr"   *)
(* (a string that float() parses to v), "badstr" (a string float() rejects *)
(* with ValueError) and "null" (float(None) raises TypeError).             *)
(* The result is [status, out]: status "returned" with the dict `out`, or  *)
(* the name of the exception that escapes the function.                    *)
(***************************************************************************)
BoxKeys == <<"bedBox", "plateBox">>

\* float(v) of one list item: the exception it raises ("" for none).
float_exc(item) ==
    CASE item.t = "badstr" -> "ValueError"
      [] item.t = "null" -> "TypeError"
      [] OTHER -> ""

\* The first exception raised by [float(v) for v in bbox] ("" for none).
RECURSIVE first_exc(_, _)
first_exc(items, k) ==
    IF k > Len(items) THEN ""
    ELSE IF float_exc(items[k]) # "" THEN float_exc(items[k])
    ELSE first_exc(items, k + 1)

\* box_valid without the two order checks.
box_valid_range(bbox) ==
    \A k \in 1..Len(bbox) : RLe(Zero, bbox[k]) /\ RLe(bbox[k], R(1, 1))

\* all(0.0 <= v <= 1.0 for v in bbox) and bbox[0] < bbox[2] and bbox[1] < bbox[3]
box_valid(bbox) ==
    /\ \A k \in 1..Len(bbox) : RLe(Zero, bbox[k]) /\ RLe(bbox[k], R(1, 1))
    /\ RLt(bbox[1], bbox[3])
    /\ RLt(bbox[2], bbox[4])

\* if bbox and len(bbox) == 4
box_shape_ok(value) == value.t = "list" /\ Len(value.items) = 4

\* bbox = [float(v) for v in bbox]
Floats(value) == [k \in 1..4 |-> value.items[k].v]

\* One iteration of the loop over the keys: "add" (the key is stored),
\* "skip" (nothing stored) or the exception raised.
check_key(data, key) ==
    IF key \notin DOMAIN data THEN "skip"
    ELSE LET value == data[key]
         IN  IF value.t = "null" THEN "skip"
             ELSE IF value.t = "number" THEN "TypeError"
             ELSE IF ~box_shape_ok(value) THEN "skip"
             ELSE IF first_exc(value.items, 1) # "" THEN first_exc(value.items, 1)
             ELSE IF box_valid(Floats(value)) THEN "add"
             ELSE "skip"

\* The exception that ends the loop over the keys, from key number i on
\* ("" when every iteration completes).
RECURSIVE loop_exc(_, _)
loop_exc(data, i) ==
    IF i > Len(BoxKeys) THEN ""
    ELSE IF check_key(data, BoxKeys[i]) \in {"ValueError", "TypeError"}
         THEN check_key(data, BoxKeys[i])
    ELSE loop_exc(data, i + 1)

EmptyDict == [k \in {} |-> <<>>]

query_gemini_regions(response) ==
    CASE response.kind \in {"nonzero_exit", "timeout", "not_json"} ->
             [status |-> "returned", out |-> EmptyDict]
      [] response.kind = "json_other" ->
             [status |-> "AttributeError", out |-> EmptyDict]
      [] OTHER ->
             LET exc == loop_exc(response.data, 1)
             IN  IF exc = "TypeError"
                 THEN [status |-> "TypeError", out |-> EmptyDict]
                 ELSE IF exc = "ValueError"
                 THEN [status |-> "returned", out |-> EmptyDict]
                 ELSE [status |-> "returned",
                       out |-> [k \in {q \in DOMAIN response.data :
                                          check_key(response.data, q) = "add"}
                                  |-> Floats(response.data[k])]]

(***************************************************************************)
(* main, lines 615-619: the bed box in pixel coordinates.                  *)
(***************************************************************************)
pixel_lo(v, n) == Max(0, Min(RInt(RMul(v, R(n, 1))), n - 1))

\* pixel_hi without the widening to lo + 1.
pixel_hi_unwidened(v, n, lo) == Min(RInt(RMul(v, R(n, 1))), n)

pixel_hi(v, n, lo) == Max(lo + 1, Min(RInt(RMul(v, R(n, 1))), n))

pixel_box(bbox_norm, img_w, img_h) ==
    LET x1 == pixel_lo(bbox_norm[1], img_w)
        y1 == pixel_lo(bbox_norm[2], img_h)
    IN  [x1 |-> x1, y1 |-> y1,
         x2 |-> pixel_hi(bbox_norm[3], img_w, x1),
         y2 |-> pixel_hi(bbox_norm[4], img_h, y1)]


(***************************************************************************)
(* The state of one run of main.                                           *)
(***************************************************************************)
VARIABLES
    pc,               \* position in main
    args,             \* parsed command line, image_exists: Path(image_path).exists()
    error,            \* why the run ended without a result ("" while it has not)
    spec,             \* truck_specs[args.truck_class]
    density,          \* MATERIAL_DENSITIES.get(args.material)
    depth_map,        \* the depth estimator's output, [h, w, px]
    response,         \* the region locator's answer to the one query
    regions,          \* the dict returned by query_gemini_regions
    bbox_norm,        \* normalized bed box in use
    box,              \* bed box in pixels, [x1, y1, x2, y2]
    floor_plane,      \* result of compute_floor_plane
    cargo_height_m,   \* height map returned by compute_cargo_height_map
    depth_scale,      \* calibration factor returned with it (some = FALSE: None)
    calib,            \* branch, statistics and divisors of that call
    volume,           \* result of compute_volume_grid
    avg_height_m,
    tonnage,
    stdout,           \* the result records printed, in order
    depth_calls,      \* calls of generate_depth_map so far
    locator_calls,    \* calls of the region locator so far
    grid_shape,       \* <<grid_rows, grid_cols>> of the compute_volume_grid call
    \* box_overlay.py, main:
    overlay_pc,       \* position in main of box_overlay
    overlay_args,     \* its parsed command line
    run_i,            \* counter of the loop it is in
    detections,       \* what detect_geometry returned, run by run
    height_m_list,    \* heights of the runs that were not skipped
    last_det,         \* the last detection that was not skipped
    fills,            \* the fill estimates kept
    overlay_stdout    \* the result records it printed, in order

\* The variables of depth_volume's main and those of box_overlay's main.
depth_vars == <<pc, args, error, spec, density, depth_map, response, regions,
                bbox_norm, box, floor_plane, cargo_height_m, depth_scale,
                calib, volume, avg_height_m, tonnage, stdout, depth_calls,
                locator_calls, grid_shape>>

overlay_vars == <<overlay_pc, overlay_args, run_i, detections, height_m_list,
                  last_det, fills, overlay_stdout>>

vars == <<depth_vars, overlay_vars>>

\* box_overlay's main at its entry with the command line a; the empty
\* function stands for the empty dict last_det starts as.
OverlayAtStart(a) ==
    /\ overlay_pc = "start"
    /\ overlay_args = a
    /\ run_i = 0
    /\ detections = <<>>
    /\ height_m_list = <<>>
    /\ last_det = <<>>
    /\ fills = <<>>
    /\ overlay_stdout = <<>>

\* The defaults of its argument parser.
OverlayDefaults ==
    [image_exists |-> TRUE, truck_class |-> "4t", material |-> "As_gara",
     ensemble |-> 2]

(***************************************************************************)
(* Bounds of the model and the inputs drawn within them.                   *)
(***************************************************************************)
MinImg == 11

MaxImgH == 12

MaxImgW == 13

MaxDepth == 1

DepthVals == (-MaxDepth)..MaxDepth

\* A depth map of h x w pixels: a background of value e with the row
\* gradient g (perspective), and in the middle third of the image a mound
\* of value e + a in its left half and e + b in its right half.
PatternMap(h, w, e, a, b, g) ==
    [h |-> h, w |-> w,
     px |-> [r \in 0..(h - 1) |-> [c \in 0..(w - 1) |->
                g * r + e +
                (IF /\ r >= h \div 3 /\ r < h - (h \div 3)
                    /\ c >= w \div 3 /\ c < w - (w \div 3)
                 THEN (IF c < w \div 2 THEN a ELSE b)
                 ELSE 0)]]]

\* The depth maps drawn in a run of main.
DepthMaps ==
    {PatternMap(h, MaxImgW, 0, ab[1], ab[2], g) :
        h \in MinImg..MaxImgH,
        ab \in {<<v, 0>> : v \in DepthVals} \cup {<<v, v>> : v \in DepthVals},
        g \in 0..1}

NoMap == [h |-> 0, w |-> 0, px |-> <<>>]

NoBox == [x1 |-> 0, y1 |-> 0, x2 |-> 0, y2 |-> 0]

\* grid_shape before compute_volume_grid is called.
NoGrid == <<0, 0>>

NoCalib == [regime |-> "undefined", p5 |-> Zero, p95 |-> Zero,
            visible_range |-> Zero, floor_offset |-> Zero, divisors |-> {}]

NoResponse == [kind |-> "none", data |-> EmptyDict]

ArgSet ==
    [image_exists : BOOLEAN,
     truck_class : {"4t", "10t", "99t"},
     material : {"As_gara", "unknown"},
     packing_density : {R(7, 10)}]

Num(n, d) == [t |-> "num", v |-> R(n, d)]

JList(items) == [t |-> "list", items |-> items]

JNull == [t |-> "null", items |-> <<>>]

JObject(data) == [kind |-> "json_object", data |-> data]

Failure(kind) == [kind |-> kind, data |-> EmptyDict]

GoodBed == JList(<<Num(0, 1), Num(0, 1), Num(1, 1), Num(1, 1)>>)

NarrowBed == JList(<<Num(1, 10), Num(1, 10), Num(2, 10), Num(9, 10)>>)

GoodPlate == JList(<<Num(4, 10), Num(8, 10), Num(6, 10), Num(9, 10)>>)

BadBed == JList(<<Num(8, 10), Num(2, 10), Num(2, 10), Num(8, 10)>>)

\* The locator answers drawn in a run of main.
LocatorResponses ==
    {Failure("timeout"), Failure("json_other"),
     JObject(EmptyDict),
     JObject([k \in {"bedBox"} |-> GoodBed]),
     JObject([k \in {"bedBox"} |-> NarrowBed]),
     JObject([k \in {"bedBox", "plateBox"} |->
                 IF k = "bedBox" THEN BadBed ELSE GoodPlate]),
     JObject([k \in {"bedBox", "plateBox"} |->
                 IF k = "bedBox" THEN GoodBed ELSE GoodPlate]),
     JObject([k \in {"bedBox", "plateBox"} |->
                 IF k = "bedBox" THEN JNull
                 ELSE JList(<<Num(4, 10), [t |-> "null", v |-> Zero],
                              Num(6, 10), Num(9, 10)>>)])}


(***************************************************************************)
(* main.                                                                   *)
(***************************************************************************)
Init ==
    /\ pc = "start"
    /\ args \in ArgSet
    /\ error = ""
    /\ spec = [bedLength |-> Zero, bedWidth |-> Zero, bedHeight |-> Zero]
    /\ density = NoFactor
    /\ depth_map = NoMap
    /\ response = NoResponse
    /\ regions = EmptyDict
    /\ bbox_norm = <<>>
    /\ box = NoBox
    /\ floor_plane = <<>>
    /\ cargo_height_m = <<>>
    /\ depth_scale = NoFactor
    /\ calib = NoCalib
    /\ volume = Zero
    /\ avg_height_m = Zero
    /\ tonnage = Zero
    /\ stdout = <<>>
    /\ depth_calls = 0
    /\ locator_calls = 0
    /\ grid_shape = NoGrid
    /\ OverlayAtStart(OverlayDefaults)

\* image_found that never misses the file.
image_found_always(a) == TRUE

image_found(a) == a.image_exists

truck_class_known(a) == a.truck_class \in DOMAIN load_truck_specs

\* MATERIAL_DENSITIES.get(args.material); some = FALSE stands for None.
density_of(a) ==
    IF a.material \in DOMAIN MATERIAL_DENSITIES
    THEN [some |-> TRUE, v |-> MATERIAL_DENSITIES[a.material]]
    ELSE NoFactor

material_known(a) == density_of(a).some

\* Lines 572-600: the three input checks, each ending the run with
\* sys.exit(1), then the lookups.
Validate ==
    /\ pc = "start"
    /\ IF ~image_found(args)
       THEN /\ pc' = "exit" /\ error' = "image_not_found"
            /\ UNCHANGED <<spec, density>>
       ELSE IF ~truck_class_known(args)
       THEN /\ pc' = "exit" /\ error' = "unknown_truck_class"
            /\ UNCHANGED <<spec, density>>
       ELSE IF ~material_known(args)
       THEN /\ pc' = "exit" /\ error' = "unknown_material"
            /\ spec' = load_truck_specs[args.truck_class]
            /\ density' = density_of(args)
       ELSE /\ pc' = "step1" /\ error' = ""
            /\ spec' = load_truck_specs[args.truck_class]
            /\ density' = density_of(args)
    /\ UNCHANGED <<args, depth_map, response, regions, bbox_norm, box,
                   floor_plane, cargo_height_m, depth_scale, calib, volume,
                   avg_height_m, tonnage, stdout, depth_calls, locator_calls, grid_shape, overlay_vars>>

\* Lines 602-604: the depth estimator is run on the image.
Step1_DepthMap ==
    /\ pc = "step1"
    /\ \E m \in DepthMaps : depth_map' = m
    /\ depth_calls' = depth_calls + 1
    /\ pc' = "step2"
    /\ UNCHANGED <<args, error, spec, density, response, regions, bbox_norm,
                   box, floor_plane, cargo_height_m, depth_scale, calib,
                   volume, avg_height_m, tonnage, stdout, locator_calls, grid_shape, overlay_vars>>

\* regions.get("bedBox"), or the fallback box when it is None.
bed_box_or_fallback(out) ==
    IF "bedBox" \in DOMAIN out THEN out["bedBox"] ELSE FallbackBox

\* Lines 606-613: the one locator query and the choice of the bed box.
Step2_Regions(answers) ==
    /\ pc = "step2"
    /\ \E a \in answers :
          LET res == query_gemini_regions(a)
          IN  /\ response' = a
              /\ IF res.status = "returned"
                 THEN /\ regions' = res.out
                      /\ bbox_norm' = bed_box_or_fallback(res.out)
                      /\ pc' = "convert"
                      /\ error' = ""
                 ELSE /\ pc' = "crashed"
                      /\ error' = res.status
                      /\ UNCHANGED <<regions, bbox_norm>>
    /\ locator_calls' = locator_calls + 1
    /\ UNCHANGED <<args, spec, density, depth_map, box, floor_plane,
                   cargo_height_m, depth_scale, calib, volume, avg_height_m,
                   tonnage, stdout, depth_calls, grid_shape, overlay_vars>>

\* Lines 615-623: the bed box in pixels.
ConvertBox ==
    /\ pc = "convert"
    /\ box' = pixel_box(bbox_norm, depth_map.w, depth_map.h)
    /\ pc' = "step3"
    /\ UNCHANGED <<args, error, spec, density, depth_map, response, regions,
                   bbox_norm, floor_plane, cargo_height_m, depth_scale, calib,
                   volume, avg_height_m, tonnage, stdout, depth_calls,
                   locator_calls, grid_shape, overlay_vars>>

\* Lines 625-626.
Step3_FloorPlane ==
    /\ pc = "step3"
    /\ floor_plane' = compute_floor_plane(depth_map, box.x1, box.y1, box.x2, box.y2)
    /\ pc' = "step4"
    /\ UNCHANGED <<args, error, spec, density, depth_map, response, regions,
                   bbox_norm, box, cargo_height_m, depth_scale, calib, volume,
                   avg_height_m, tonnage, stdout, depth_calls, locator_calls, grid_shape, overlay_vars>>

CalibLog(res) ==
    [regime |-> res.regime, p5 |-> res.p5, p95 |-> res.p95,
     visible_range |-> res.visible_range, floor_offset |-> res.floor_offset,
     divisors |-> res.divisors]

\* Lines 628-631: an exception raised by the call ends the run.
Step4_CargoHeight ==
    /\ pc = "step4"
    /\ LET res == compute_cargo_height_map(depth_map, floor_plane, box.x1, box.y1,
                                           box.x2, box.y2, spec.bedHeight)
       IN  IF res.status = "returned"
           THEN /\ cargo_height_m' = res.cargo_height_m
                /\ depth_scale' = res.meters_per_depth_unit
                /\ calib' = CalibLog(res)
                /\ pc' = "step5"
                /\ error' = ""
           ELSE /\ pc' = "crashed"
                /\ error' = res.status
                /\ UNCHANGED <<cargo_height_m, depth_scale, calib>>
    /\ UNCHANGED <<args, spec, density, depth_map, response, regions,
                   bbox_norm, box, floor_plane, volume, avg_height_m, tonnage,
                   stdout, depth_calls, locator_calls, grid_shape, overlay_vars>>

\* The default grid_rows and grid_cols, which main does not override.
DefaultGrid == <<GRID_ROWS, GRID_COLS>>

\* Lines 633-636; the grid shape is that of `shapes` the call is given.
Step5_Volume(shapes) ==
    /\ pc = "step5"
    /\ \E g \in shapes :
          LET res == compute_volume_grid(cargo_height_m, spec.bedLength,
                                         spec.bedWidth, g[1], g[2])
          IN  /\ volume' = res.volume
              /\ avg_height_m' = res.avg_height_m
              /\ grid_shape' = g
    /\ pc' = "step6"
    /\ UNCHANGED <<args, error, spec, density, depth_map, response, regions,
                   bbox_norm, box, floor_plane, cargo_height_m, depth_scale,
                   calib, tonnage, stdout, depth_calls, locator_calls, overlay_vars>>

\* tonnage without the packing density.
tonnage_unpacked(volume_m3, density_t_m3, packing_density) ==
    RMul(volume_m3, density_t_m3)

\* tonnage = volume * density * packing_density
tonnage_of(volume_m3, density_t_m3, packing_density) ==
    RMul(RMul(volume_m3, density_t_m3), packing_density)

\* Lines 638-639.
Step6_Tonnage ==
    /\ pc = "step6"
    /\ tonnage' = tonnage_of(volume, density.v, args.packing_density)
    /\ pc' = "report"
    /\ UNCHANGED <<args, error, spec, density, depth_map, response, regions,
                   bbox_norm, box, floor_plane, cargo_height_m, depth_scale,
                   calib, volume, avg_height_m, stdout, depth_calls,
                   locator_calls, grid_shape, overlay_vars>>

\* "depth_scale": round(depth_scale, 5) if depth_scale else None
reported_scale(scale) ==
    IF scale.some /\ scale.v.n # 0
    THEN [some |-> TRUE, v |-> py_round(scale.v, 5)]
    ELSE NoFactor

\* Lines 641-651: the depth statistics of the record.
depth_stats(dm, fp, x1, y1, x2, y2) ==
    LET pixels == {dm.px[r][c] : r \in 0..(dm.h - 1), c \in 0..(dm.w - 1)}
        h == y2 - y1
        w == x2 - x1
        bed_region == ListOf([k \in 1..(h * w) |->
                                 R(dm.px[y1 + ((k - 1) \div w)][x1 + ((k - 1) % w)], 1)],
                             h * w)
    IN  [min |-> py_round(R(CHOOSE v \in pixels : \A u \in pixels : v <= u, 1), 4),
         max |-> py_round(R(CHOOSE v \in pixels : \A u \in pixels : v >= u, 1), 4),
         mean_in_bed |-> py_round(np_mean(bed_region), 4),
         floor_front |-> py_round(fp[0][0], 4),
         floor_rear |-> py_round(fp[h - 1][0], 4)]

\* [round(v, 4) for v in plate_norm] if plate_norm else None
plate_rounded(out) ==
    IF "plateBox" \in DOMAIN out
    THEN [some |-> TRUE, v |-> <<py_round(out["plateBox"][1], 4),
                                 py_round(out["plateBox"][2], 4),
                                 py_round(out["plateBox"][3], 4),
                                 py_round(out["plateBox"][4], 4)>>]
    ELSE [some |-> FALSE, v |-> <<>>]

\* calibration_method = f"floor_plane_bed_height_{bed_height}m"
calibration_method(bed_height) == <<"floor_plane_bed_height", bed_height>>

\* Lines 641-672: the result record is printed.
Report ==
    /\ pc = "report"
    /\ stdout' = Append(stdout,
          [method |-> "depth-volume",
           calibration |-> calibration_method(spec.bedHeight),
           truck_class |-> args.truck_class,
           material_type |-> args.material,
           packing_density |-> args.packing_density,
           density |-> density.v,
           bed_bbox_normalized |-> <<py_round(bbox_norm[1], 4),
                                     py_round(bbox_norm[2], 4),
                                     py_round(bbox_norm[3], 4),
                                     py_round(bbox_norm[4], 4)>>,
           plate_bbox_normalized |-> plate_rounded(regions),
           bed_height_m |-> spec.bedHeight,
           depth_scale |-> reported_scale(depth_scale),
           floor_front |-> py_round(floor_plane[0][0], 4),
           floor_rear |-> py_round(floor_plane[box.y2 - box.y1 - 1][0], 4),
           depth_stats |-> depth_stats(depth_map, floor_plane, box.x1, box.y1,
                                       box.x2, box.y2),
           avg_cargo_height_m |-> py_round(avg_height_m, 4),
           estimated_volume_m3 |-> py_round(volume, 4),
           estimated_tonnage |-> py_round(tonnage, 2)])
    /\ pc' = "done"
    /\ UNCHANGED <<args, error, spec, density, depth_map, response, regions,
                   bbox_norm, box, floor_plane, cargo_height_m, depth_scale,
                   calib, volume, avg_height_m, tonnage, depth_calls,
                   locator_calls, grid_shape, overlay_vars>>

Next ==
    \/ Validate
    \/ Step1_DepthMap
    \/ Step2_Regions(LocatorResponses)
    \/ ConvertBox
    \/ Step3_FloorPlane
    \/ Step4_CargoHeight
    \/ Step5_Volume({DefaultGrid})
    \/ Step6_Tonnage
    \/ Report

Spec == Init /\ [][Next]_vars

(***************************************************************************)
(* The locator query on its own: main at the query, with the answers       *)
(* drawn from every shape of JSON object the loop over the keys tells      *)
(* apart.                                                                  *)
(***************************************************************************)
CoordDen == 2

\* List items: numbers k / CoordDen from below 0 to above 1, a numeric
\* string, a string float() rejects, and null.
ItemVals ==
    {Num(k, CoordDen) : k \in (-1)..(CoordDen + 1)} \cup
    {[t |-> "numstr", v |-> R(1, 2)], [t |-> "badstr", v |-> Zero],
     [t |-> "null", v |-> Zero]}

Lists4 == {JList(<<q[1], q[2], q[3], q[4]>>) : q \in ItemVals \X ItemVals \X ItemVals \X ItemVals}

OddValues ==
    {JNull, [t |-> "number", items |-> <<>>], JList(<<>>),
     JList(<<Num(0, 1), Num(0, 1), Num(1, 1)>>),
     JList(<<Num(0, 1), Num(0, 1), Num(1, 1), Num(1, 1), Num(1, 1)>>)}

PlateValues ==
    {GoodPlate,
     JList(<<Num(6, 10), Num(8, 10), Num(4, 10), Num(9, 10)>>),
     JList(<<Num(4, 10), Num(8, 10), [t |-> "badstr", v |-> Zero], Num(9, 10)>>)}

RegionResponses ==
    {Failure(k) : k \in {"nonzero_exit", "timeout", "not_json", "json_other"}}
    \cup {JObject(EmptyDict)}
    \cup {JObject([k \in {"bedBox"} |-> b]) : b \in Lists4 \cup OddValues}
    \cup {JObject([k \in {"plateBox"} |-> b]) : b \in Lists4 \cup OddValues}
    \cup {JObject([k \in {"bedBox", "plateBox"} |-> IF k = "bedBox" THEN b[1] ELSE b[2]]) :
              b \in (Lists4 \cup OddValues) \X PlateValues}

ValidArgs ==
    [image_exists |-> TRUE, truck_class |-> "4t", material |-> "As_gara",
     packing_density |-> R(7, 10)]

\* main after the input checks and the depth estimator, given args and the
\* depth map m.
AtQuery(a, m) ==
    /\ pc = "step2"
    /\ args = a
    /\ error = ""
    /\ spec = load_truck_specs[a.truck_class]
    /\ density = density_of(a)
    /\ depth_map = m
    /\ response = NoResponse
    /\ regions = EmptyDict
    /\ bbox_norm = <<>>
    /\ box = NoBox
    /\ floor_plane = <<>>
    /\ cargo_height_m = <<>>
    /\ depth_scale = NoFactor
    /\ calib = NoCalib
    /\ volume = Zero
    /\ avg_height_m = Zero
    /\ tonnage = Zero
    /\ stdout = <<>>
    /\ depth_calls = 1
    /\ locator_calls = 0
    /\ grid_shape = NoGrid
    /\ OverlayAtStart(OverlayDefaults)

InitRegions == AtQuery(ValidArgs, PatternMap(MinImg, MinImg, 0, 0, 0, 0))

NextRegions == Step2_Regions(RegionResponses)

SpecRegions == InitRegions /\ [][NextRegions]_vars

(***************************************************************************)
(* The conversion of the bed box to pixels on its own: main after the      *)
(* query, for every image size from 1 x 1 and every valid normalized box   *)
(* on a grid, and the fallback box.                                        *)
(***************************************************************************)
BoxDen == 5

GridBoxes ==
    {<<R(q[1], BoxDen), R(q[2], BoxDen), R(q[3], BoxDen), R(q[4], BoxDen)>> :
        q \in {v \in (0..BoxDen) \X (0..BoxDen) \X (0..BoxDen) \X (0..BoxDen) :
                  v[1] < v[3] /\ v[2] < v[4]}}

\* main after the query returned out, for the depth map m.
AtConvert(a, m, out) ==
    /\ pc = "convert"
    /\ args = a
    /\ error = ""
    /\ spec = load_truck_specs[a.truck_class]
    /\ density = density_of(a)
    /\ depth_map = m
    /\ response = JObject([k \in DOMAIN out |->
                              JList(<<[t |-> "num", v |-> out[k][1]],
                                      [t |-> "num", v |-> out[k][2]],
                                      [t |-> "num", v |-> out[k][3]],
                                      [t |-> "num", v |-> out[k][4]]>>)])
    /\ regions = out
    /\ bbox_norm = bed_box_or_fallback(out)
    /\ box = NoBox
    /\ floor_plane = <<>>
    /\ cargo_height_m = <<>>
    /\ depth_scale = NoFactor
    /\ calib = NoCalib
    /\ volume = Zero
    /\ avg_height_m = Zero
    /\ tonnage = Zero
    /\ stdout = <<>>
    /\ depth_calls = 1
    /\ locator_calls = 1
    /\ grid_shape = NoGrid
    /\ OverlayAtStart(OverlayDefaults)

InitBBox ==
    \E h \in 1..MaxImgH, w \in 1..MaxImgW :
    \E out \in {EmptyDict} \cup {[k \in {"bedBox"} |-> b] : b \in GridBoxes} :
        AtConvert(ValidArgs, PatternMap(h, w, 0, 0, 0, 0), out)

NextBBox == ConvertBox

SpecBBox == InitBBox /\ [][NextBBox]_vars

(***************************************************************************)
(* The calibration on its own: main from the conversion of a bed box that  *)
(* covers the whole image, for small images, so that the crop is the       *)
(* image and the mound of the depth map decides the regime.                *)
(***************************************************************************)
SmallCrop == 6

MaxCropH == 8

MaxCropW == 9

MaxMound == 2

MoundVals == (-MaxMound)..MaxMound

CalibMaps ==
    {PatternMap(d[1], d[2], 0, ab[1], ab[2], g) :
        d \in (SmallCrop..MaxCropH) \X ((MaxCropW - 1)..MaxCropW),
        ab \in MoundVals \X MoundVals,
        g \in 0..1}

WholeImage == [k \in {"bedBox"} |-> <<Zero, Zero, R(1, 1), R(1, 1)>>]

InitCalib ==
    \E t \in DOMAIN load_truck_specs, m \in CalibMaps :
        AtConvert([ValidArgs EXCEPT !.truck_class = t], m, WholeImage)

NextCalib ==
    \/ ConvertBox
    \/ Step3_FloorPlane
    \/ Step4_CargoHeight

SpecCalib == InitCalib /\ [][NextCalib]_vars

(***************************************************************************)
(* Properties of the calibration (compute_cargo_height_map), stated on     *)
(* the state main is in once the call has returned.                        *)
(***************************************************************************)
MaxHeight == R(4, 5)

\* The filtered delta of the current bed box, and its interior.
DeltaNow ==
    filtered_delta(depth_map, floor_plane, box.x1, box.y1, box.x2, box.y2)

InteriorNow == interior_of(DeltaNow, box.y2 - box.y1, box.x2 - box.x1)

HeightPixels ==
    {cargo_height_m[r][c] : r \in 0..(box.y2 - box.y1 - 1),
                            c \in 0..(box.x2 - box.x1 - 1)}

\* C1: every value of the height map the calibration returns lies in
\* [0, 0.80] m, whichever branch returned it (floor visible, floor hidden,
\* or the early return of the degenerate range), and the map has the
\* shape of the crop.
HeightMapInRange ==
    pc = "step5" =>
        /\ DOMAIN cargo_height_m = 0..(box.y2 - box.y1 - 1)
        /\ \A r \in DOMAIN cargo_height_m :
               DOMAIN cargo_height_m[r] = 0..(box.x2 - box.x1 - 1)
        /\ \A v \in HeightPixels :
               Defined(v) /\ RLe(Zero, v) /\ RLe(v, MaxHeight)

\* A calibrated map in which the clip acted at both ends: a pixel at the
\* ceiling, a pixel at zero and a pixel strictly between.
HeightMapClipped ==
    /\ pc = "step5"
    /\ depth_scale.some
    /\ MaxHeight \in HeightPixels
    /\ Zero \in HeightPixels
    /\ \E v \in HeightPixels : RLt(Zero, v) /\ RLt(v, MaxHeight)

\* C2: the regime is floor-visible exactly when the 5th percentile of the
\* interior delta is negative and floor-hidden exactly when it is not; in
\* the floor-visible regime the factor is bed_height_m / |p5| and the
\* floor offset is p5.
RegimeFollowsP5 ==
    pc = "step5" =>
        LET p5 == np_percentile(InteriorNow, 5)
        IN  /\ calib.regime = "floor_visible" <=> RLt(p5, Zero)
            /\ calib.regime = "floor_hidden" <=> RLe(Zero, p5)
            /\ calib.regime = "floor_visible" =>
                   /\ depth_scale = [some |-> TRUE,
                                     v |-> RDiv(spec.bedHeight, RAbs(p5))]
                   /\ calib.floor_offset = p5

\* The floor-visible regime was taken on a negative 5th percentile.
FloorVisibleTaken ==
    /\ pc = "step5"
    /\ calib.regime = "floor_visible"
    /\ RLt(calib.p5, Zero)
    /\ depth_scale.some

\* C3: in the floor-hidden regime with a positive visible range p95 - p5
\* the factor is 0.30 / (p95 - p5) and the floor offset is
\* -bed_height_m / factor.
HiddenRegimeCalibration ==
    pc = "step5" /\ calib.regime = "floor_hidden" =>
        LET p5 == np_percentile(InteriorNow, 5)
            p95 == np_percentile(InteriorNow, 95)
            visible_range == RSub(p95, p5)
        IN  RLt(Zero, visible_range) =>
               /\ depth_scale = [some |-> TRUE,
                                 v |-> RDiv(R(30, 100), visible_range)]
               /\ calib.floor_offset =
                      RNeg(RDiv(spec.bedHeight, depth_scale.v))

\* The floor-hidden regime calibrated on a positive visible range.
FloorHiddenCalibrated ==
    /\ pc = "step5"
    /\ calib.regime = "floor_hidden"
    /\ RLt(Zero, calib.visible_range)
    /\ depth_scale.some
    /\ RLt(calib.floor_offset, Zero)

\* C4: a calibration factor that is returned is strictly positive.
FactorPositive ==
    pc = "step5" /\ depth_scale.some =>
        Defined(depth_scale.v) /\ RLt(Zero, depth_scale.v)

\* A factor was returned for the 10t bed from a floor seen 2 units below
\* the floor plane.
FactorReturned ==
    /\ pc = "step5"
    /\ depth_scale = [some |-> TRUE, v |-> R(1, 2)]
    /\ calib.p5 = R(-2, 1)

\* C5: the calibration never divides by zero: every denominator it used is
\* a nonzero number, the floor-visible branch divided by |p5|, and in the
\* floor-hidden branch a range that is not positive returns without a
\* factor and without a division.
NoDivisionByZero ==
    pc = "step5" =>
        /\ \A x \in calib.divisors : Defined(x) /\ x.n # 0
        /\ calib.regime = "floor_visible" =>
               calib.divisors = {RAbs(np_percentile(InteriorNow, 5))}
        /\ calib.regime = "floor_hidden" /\ depth_scale.some =>
               calib.divisors = {calib.visible_range, depth_scale.v}
        /\ (calib.regime = "floor_hidden" /\
             RLe(RSub(np_percentile(InteriorNow, 95),
                      np_percentile(InteriorNow, 5)), Zero)) =>
               ~depth_scale.some /\ calib.divisors = {}

\* The floor-hidden branch met a range of zero and returned no factor.
DegenerateRangeMet ==
    /\ pc = "step5"
    /\ calib.regime = "floor_hidden"
    /\ calib.visible_range = Zero
    /\ ~depth_scale.some
    /\ calib.divisors = {}

(***************************************************************************)
(* Properties of main.                                                     *)
(***************************************************************************)
\* The calibration returned without a factor (its early return).
CalibrationFailed == calib.regime = "floor_hidden" /\ ~depth_scale.some

PixelBoxWithinImage ==
    (/\ pc = "step3"
     /\ depth_map.w >= 1 /\ depth_map.h >= 1
     /\ box_valid(bbox_norm)) =>
        /\ 0 <= box.x1 /\ box.x1 < box.x2 /\ box.x2 <= depth_map.w
        /\ 0 <= box.y1 /\ box.y1 < box.y2 /\ box.y2 <= depth_map.h

\* The fallback box on a 1 x 1 image: both corners truncate to 0 and the
\* box is widened to the one pixel.
PixelBoxWidened ==
    /\ pc = "step3"
    /\ depth_map.w = 1 /\ depth_map.h = 1
    /\ bbox_norm = FallbackBox
    /\ box = [x1 |-> 0, y1 |-> 0, x2 |-> 1, y2 |-> 1]

\* The value the locator gave for a key is a list of exactly four numbers
\* in [0, 1] with x1 < x2 and y1 < y2.
ValidBoxValue(value) ==
    /\ value.t = "list"
    /\ Len(value.items) = 4
    /\ \A k \in 1..4 :
           /\ value.items[k].t \in {"num", "numstr"}
           /\ RLe(Zero, value.items[k].v) /\ RLe(value.items[k].v, R(1, 1))
    /\ RLt(value.items[1].v, value.items[3].v)
    /\ RLt(value.items[2].v, value.items[4].v)

\* C8: a key (bedBox or plateBox) is in the result of the query only if
\* the locator's answer held for it exactly four values, all in [0, 1],
\* with x1 < x2 and y1 < y2, and the result holds those values; a key
\* that is missing or whose box is invalid is not in the result; and a
\* failure of the locator (non-zero exit, timeout, output that does not
\* parse) gives the empty result and no exception.
RegionsResultValid ==
    locator_calls = 1 =>
        /\ DOMAIN regions \subseteq {"bedBox", "plateBox"}
        /\ \A key \in DOMAIN regions :
               /\ response.kind = "json_object"
               /\ key \in DOMAIN response.data
               /\ ValidBoxValue(response.data[key])
               /\ regions[key] = <<response.data[key].items[1].v,
                                   response.data[key].items[2].v,
                                   response.data[key].items[3].v,
                                   response.data[key].items[4].v>>
        /\ response.kind \in {"nonzero_exit", "timeout", "not_json"} =>
               /\ pc # "crashed"
               /\ error = ""
               /\ regions = EmptyDict

\* The answer held a valid bedBox and a plateBox with x1 > x2: the result
\* holds the bedBox alone.
RegionsKeptBedOnly ==
    /\ pc = "convert"
    /\ response.kind = "json_object"
    /\ DOMAIN response.data = {"bedBox", "plateBox"}
    /\ ~ValidBoxValue(response.data["plateBox"])
    /\ DOMAIN regions = {"bedBox"}

\* The locator was queried and its answer holds no valid bedBox.
NoUsableBedBox ==
    /\ locator_calls = 1
    /\ ~(/\ response.kind = "json_object"
          /\ "bedBox" \in DOMAIN response.data
          /\ ValidBoxValue(response.data["bedBox"]))

\* C9, as stated: when the locator gives no usable bedBox the run does not
\* fail and goes on with the box [0.2, 0.2, 0.8, 0.8], whether or not a
\* plateBox was given.
FallbackRunCompletes ==
    NoUsableBedBox =>
        /\ pc # "crashed"
        /\ error = ""
        /\ bbox_norm = FallbackBox

\* A run on the fallback box ended in stage 4: the crop of the fallback
\* box has an empty interior.
FallbackRunCrashed ==
    /\ NoUsableBedBox
    /\ response.kind = "json_object"
    /\ bbox_norm = FallbackBox
    /\ pc = "crashed"
    /\ error = "IndexError"

\* One of the three input checks of main fails for these arguments.
InputRejected ==
    \/ ~args.image_exists
    \/ args.truck_class \notin {"4t", "10t"}
    \/ args.material \notin {"dosha", "As_gara", "Co_gara", "kairyudo_As_gara"}

\* C10: with a missing image, an unknown truck class or an unknown
\* material main exits with that error as its first step: the depth
\* estimator and the locator are never called and nothing is printed.
InputErrorsExitAtOnce ==
    InputRejected =>
        /\ pc \in {"start", "exit"}
        /\ pc = "start" => ENABLED Validate
        /\ pc = "exit" =>
               error \in {"image_not_found", "unknown_truck_class",
                          "unknown_material"}
        /\ depth_calls = 0
        /\ locator_calls = 0
        /\ stdout = <<>>

\* main has exited on a missing image.
ExitedOnMissingImage ==
    /\ pc = "exit"
    /\ error = "image_not_found"
    /\ ~args.image_exists
    /\ depth_calls = 0

(***************************************************************************)
(* The floor plane on its own: main from the conversion of the bed box,    *)
(* for small images and for bed boxes of every width from one pixel.       *)
(***************************************************************************)
MaxFloorH == 4

MaxFloorW == 8

FloorDen == 4

FloorMaps ==
    {PatternMap(d[1], d[2], 0, a, 0, g) :
        d \in (1..MaxFloorH) \X (1..MaxFloorW), a \in DepthVals, g \in 0..1}

FloorBoxes ==
    {<<R(q[1], FloorDen), y[1], R(q[2], FloorDen), y[2]>> :
        q \in {v \in (0..FloorDen) \X (0..FloorDen) : v[1] < v[2]},
        y \in {<<Zero, R(1, 1)>>, <<R(1, 4), R(3, 4)>>}}

InitFloor ==
    \E m \in FloorMaps, b \in FloorBoxes :
        AtConvert(ValidArgs, m, [k \in {"bedBox"} |-> b])

NextFloor ==
    \/ ConvertBox
    \/ Step3_FloorPlane

SpecFloor == InitFloor /\ [][NextFloor]_vars

\* C11: for every depth map and pixel box with 0 <= x1 < x2 <= width and
\* 0 <= y1 < y2 <= height the floor plane has (y2 - y1) rows of (x2 - x1)
\* columns, and all columns of a row hold the same value.
FloorPlaneRowConstant ==
    (/\ pc = "step4"
     /\ 0 <= box.x1 /\ box.x1 < box.x2 /\ box.x2 <= depth_map.w
     /\ 0 <= box.y1 /\ box.y1 < box.y2 /\ box.y2 <= depth_map.h) =>
        /\ DOMAIN floor_plane = 0..(box.y2 - box.y1 - 1)
        /\ \A r \in DOMAIN floor_plane :
               /\ DOMAIN floor_plane[r] = 0..(box.x2 - box.x1 - 1)
               /\ \A c \in DOMAIN floor_plane[r] :
                      Defined(floor_plane[r][c]) /\
                      floor_plane[r][c] = floor_plane[r][0]

\* A floor plane of several rows and columns whose rows differ.
FloorPlaneSloped ==
    /\ pc = "step4"
    /\ box.y2 - box.y1 >= 3
    /\ box.x2 - box.x1 >= 4
    /\ floor_plane[0][0] # floor_plane[box.y2 - box.y1 - 1][0]

\* The median of the leftmost and the rightmost margin columns of row r of
\* the crop, the strips taken inside the crop.
CropEdgeMedian(r) ==
    LET width  == box.x2 - box.x1
        margin == Min(Max(3, width \div 20), width)
    IN  np_median(RowSlice(depth_map, box.y1 + r, box.x1, box.x1 + margin) \o
                  RowSlice(depth_map, box.y1 + r, box.x2 - margin, box.x2))

\* C18, as stated: for every crop width >= 1 every pixel sampled for the
\* floor estimate of a row lies in the crop columns [x1, x2), and the raw
\* estimate of the row is the median of the leftmost and the rightmost
\* margin columns of that row of the crop, margin = max(3, width // 20).
EdgeStripsInsideCrop ==
    pc = "step4" /\ box.x2 - box.x1 >= 1 =>
        /\ sampled_columns(depth_map, box.x1, box.x2) \subseteq
               box.x1..(box.x2 - 1)
        /\ \A r \in 0..(box.y2 - box.y1 - 1) :
               row_floor_raw(depth_map, box.x1, box.y1, box.x2, box.y2, r) =
                   CropEdgeMedian(r)

\* A crop one pixel wide inside a wider image: the left strip reads the
\* two columns to the right of the crop, and the floor estimate of the
\* first row is not the depth of the crop's own pixel.
EdgeStripLeavesCrop ==
    /\ pc = "step4"
    /\ box.x2 - box.x1 = 1
    /\ box.x2 + 1 \in sampled_columns(depth_map, box.x1, box.x2)
    /\ row_floor_raw(depth_map, box.x1, box.y1, box.x2, box.y2, 0) #
           R(depth_map.px[box.y1][box.x1], 1)

(***************************************************************************)
(* compute_volume_grid on its own: main at step 5 with the height map      *)
(* drawn from small maps, maps with no rows or no columns included, and    *)
(* the grid shape drawn from coarser to finer than the pixels, besides the *)
(* default shape.                                                          *)
(***************************************************************************)
MaxMapH == 2

MaxMapW == 3

MaxLevel == 3

MaxGridR == 4

MaxGridC == 6

\* Heights from 0 to 0.80 m in MaxLevel steps.
HeightLevel(k) == R(4 * k, 5 * MaxLevel)

PatternHeights(h, w, a, b, s) ==
    [r \in 0..(h - 1) |-> [c \in 0..(w - 1) |->
        HeightLevel((a * r + b * c + s) % (MaxLevel + 1))]]

HeightMaps ==
    {PatternHeights(d[1], d[2], ab[1], ab[2], s) :
        d \in (0..MaxMapH) \X (0..MaxMapW),
        ab \in {<<0, 0>>, <<1, 1>>},
        s \in 0..MaxLevel}

VolumeShapes == ((1..MaxGridR) \X (1..MaxGridC)) \cup {DefaultGrid}

\* main before step 5, holding the height map hm.
AtVolume(a, hm) ==
    /\ pc = "step5"
    /\ args = a
    /\ error = ""
    /\ spec = load_truck_specs[a.truck_class]
    /\ density = density_of(a)
    /\ depth_map = NoMap
    /\ response = NoResponse
    /\ regions = EmptyDict
    /\ bbox_norm = FallbackBox
    /\ box = [x1 |-> 0, y1 |-> 0, x2 |-> Cols(hm), y2 |-> Rows(hm)]
    /\ floor_plane = <<>>
    /\ cargo_height_m = hm
    /\ depth_scale = NoFactor
    /\ calib = NoCalib
    /\ volume = Zero
    /\ avg_height_m = Zero
    /\ tonnage = Zero
    /\ stdout = <<>>
    /\ depth_calls = 1
    /\ locator_calls = 1
    /\ grid_shape = NoGrid
    /\ OverlayAtStart(OverlayDefaults)

InitVolume == \E hm \in HeightMaps : AtVolume(ValidArgs, hm)

NextVolume ==
    \/ Step5_Volume(VolumeShapes)
    \/ Step6_Tonnage

SpecVolume == InitVolume /\ [][NextVolume]_vars

\* The pixel rows [int(r*h/R), int((r+1)*h/R)) of grid row r and the pixel
\* columns of grid column c, for the height map and the grid of the call.
RectRows(r) ==
    ((r * Rows(cargo_height_m)) \div grid_shape[1]) ..
    ((((r + 1) * Rows(cargo_height_m)) \div grid_shape[1]) - 1)

RectCols(c) ==
    ((c * Cols(cargo_height_m)) \div grid_shape[2]) ..
    ((((c + 1) * Cols(cargo_height_m)) \div grid_shape[2]) - 1)

\* (bedLength / C) * (bedWidth / R)
CellArea ==
    RMul(RDiv(spec.bedLength, R(grid_shape[2], 1)),
         RDiv(spec.bedWidth, R(grid_shape[1], 1)))

\* The mean of the pixels of cell (r, c) times the cell area; zero for a
\* cell with no pixel.
CellTerm(r, c) ==
    IF RectRows(r) = {} \/ RectCols(c) = {} THEN Zero
    ELSE RMul(np_mean(Flatten(cargo_height_m, RectRows(r), RectCols(c))), CellArea)

GridSum ==
    LET n == grid_shape[1] * grid_shape[2]
    IN  SeqSum(ListOf([k \in 1..n |->
                          CellTerm((k - 1) \div grid_shape[2],
                                   (k - 1) % grid_shape[2])], n), 1, n)

AllPixels ==
    Flatten(cargo_height_m, 0..(Rows(cargo_height_m) - 1),
            0..(Cols(cargo_height_m) - 1))

MeanTimesBedArea == RMul(avg_height_m, RMul(spec.bedLength, spec.bedWidth))

\* Every grid cell lies inside one pixel or is one pixel: the grid is a
\* whole multiple of the pixel grid.
GridRefinesPixels ==
    /\ Rows(cargo_height_m) >= 1 /\ Cols(cargo_height_m) >= 1
    /\ grid_shape[1] % Rows(cargo_height_m) = 0
    /\ grid_shape[2] % Cols(cargo_height_m) = 0

\* C13: for a fixed height map and bed, the volume converges to
\* mean(heightMap) * bedLength * bedWidth as the grid grows, also beyond the
\* pixel size of the map.  The height map is constant on each pixel, so on
\* every grid that refines the pixel grid the limit is already reached: the
\* volume is mean(heightMap) * bedLength * bedWidth.
FineGridVolumeConverged ==
    (pc = "step6" /\ GridRefinesPixels) => volume = MeanTimesBedArea

\* A grid twice as fine as the pixels in both directions returned a quarter
\* of mean(heightMap) * bedLength * bedWidth.
FineGridLosesVolume ==
    /\ pc = "step6"
    /\ Rows(cargo_height_m) >= 1 /\ Cols(cargo_height_m) >= 1
    /\ grid_shape = <<2 * Rows(cargo_height_m), 2 * Cols(cargo_height_m)>>
    /\ RLt(Zero, volume)
    /\ RMul(R(4, 1), volume) = MeanTimesBedArea

MaxScale == 2

\* The positive constants k the heights are multiplied by.
ScaleFactors == {R(n, 1) : n \in 1..MaxScale} \cup {R(1, n) : n \in 1..MaxScale}

\* The height map with every value multiplied by k.
scaled_map(hm, k) ==
    [r \in DOMAIN hm |-> [c \in DOMAIN hm[r] |-> RMul(k, hm[r][c])]]

VolumeOfScaled(k) ==
    compute_volume_grid(scaled_map(cargo_height_m, k), spec.bedLength,
                        spec.bedWidth, grid_shape[1], grid_shape[2]).volume

\* C14: compute_volume_grid is homogeneous in the heights: the volume of
\* the map with every value multiplied by a positive constant k is k times
\* the volume of the map.
VolumeHomogeneous ==
    pc = "step6" => \A k \in ScaleFactors : VolumeOfScaled(k) = RMul(k, volume)

\* A sloping map with a positive volume whose doubled heights exceed
\* max_cargo_height_m was integrated, and doubling doubles the volume.
DoubledMapIntegrated ==
    /\ pc = "step6"
    /\ RLt(Zero, volume)
    /\ Rows(cargo_height_m) >= 2 /\ Cols(cargo_height_m) >= 2
    /\ cargo_height_m[0][0] # cargo_height_m[1][1]
    /\ RLt(max_cargo_height_m, RMul(R(2, 1), cargo_height_m[0][0]))
    /\ VolumeOfScaled(R(2, 1)) = RMul(R(2, 1), volume)

\* The contribution of grid cell (r, c) to total_volume.
CellContribution(r, c) ==
    cell_volume(cargo_height_m, CellArea,
                RDiv(R(Rows(cargo_height_m), 1), R(grid_shape[1], 1)),
                RDiv(R(Cols(cargo_height_m), 1), R(grid_shape[2], 1)), r, c)

\* C15: compute_volume_grid returns numbers on every small or degenerate
\* height map: a grid cell whose pixel sub-rectangle is empty adds zero to
\* the volume, and a map with zero rows or zero columns returns (0.0, 0.0).
VolumeTotalOnDegenerateMaps ==
    pc = "step6" =>
        /\ Defined(volume) /\ Defined(avg_height_m)
        /\ (Rows(cargo_height_m) = 0 \/ Cols(cargo_height_m) = 0) =>
               (volume = Zero /\ avg_height_m = Zero)
        /\ (Rows(cargo_height_m) >= 1 /\ Cols(cargo_height_m) >= 1) =>
               \A r \in 0..(grid_shape[1] - 1), c \in 0..(grid_shape[2] - 1) :
                   (RectRows(r) = {} \/ RectCols(c) = {}) =>
                       CellContribution(r, c) = Zero

\* A map of one pixel was integrated over the default grid of 10 x 20: all
\* cells but one are empty, and the volume is a positive number.
OnePixelMapIntegrated ==
    /\ pc = "step6"
    /\ Rows(cargo_height_m) = 1 /\ Cols(cargo_height_m) = 1
    /\ grid_shape = DefaultGrid
    /\ RLt(Zero, volume)

(***************************************************************************)
(* Properties of the result record and of the tonnage, stated on main.     *)
(***************************************************************************)

\* C16: the result record carries a calibration-method tag that identifies
\* which calibration regime was applied to the image.  The tag of the
\* record is the one built from the bed height; it identifies the regime
\* only if it is printed in one regime and not in the other.
CalibrationTagIdentifiesRegime ==
    pc = "done" =>
        (stdout[1].calibration = calibration_method(spec.bedHeight)
            <=> calib.regime = "floor_visible")

\* A run calibrated in the floor-hidden regime has printed a record with a
\* depth scale and with the tag that floor-visible runs print.
HiddenRunTaggedByBedHeight ==
    /\ pc = "done"
    /\ calib.regime = "floor_hidden"
    /\ depth_scale.some
    /\ stdout[1].calibration = calibration_method(spec.bedHeight)
    /\ stdout[1].depth_scale = reported_scale(depth_scale)
    /\ stdout[1].depth_scale.some

\* C17: the estimated tonnage is volume * density * packingDensity, with
\* density the table value of the selected material and volume the value
\* returned by the volume integrator for the height map of the run; volume
\* 10, density 2.5 and packing 0.7 give 17.5.
TonnageIsProduct ==
    /\ tonnage_of(R(10, 1), R(25, 10), R(7, 10)) = R(175, 10)
    /\ pc \in {"report", "done"} =>
          /\ volume = compute_volume_grid(cargo_height_m, spec.bedLength,
                                          spec.bedWidth, GRID_ROWS, GRID_COLS).volume
          /\ tonnage = RMul(volume,
                            RMul(MATERIAL_DENSITIES[args.material],
                                 args.packing_density))

\* A run with a positive volume has computed its tonnage and printed it.
TonnagePrinted ==
    /\ pc = "done"
    /\ RLt(Zero, volume)
    /\ RLt(Zero, tonnage)
    /\ RLt(tonnage, RMul(volume, MATERIAL_DENSITIES[args.material]))
    /\ stdout[1].estimated_tonnage = py_round(tonnage, 2)

(***************************************************************************)
(* Properties of the interior region and of the height function of the     *)
(* calibration.                                                            *)
(***************************************************************************)

\* C19: for every bed crop the conversion produces (height >= 1 and
\* width >= 1) the interior delta[m_y:-m_y, m_x:-m_x] with
\* m_y = max(3, h // 10), m_x = max(3, w // 10) has at least one pixel, so
\* the percentiles are defined and the calibration does not raise.
InteriorNeverEmpty ==
    /\ pc = "step4" =>
          /\ box.y2 - box.y1 >= 1 /\ box.x2 - box.x1 >= 1
          /\ Len(InteriorNow) >= 1
    /\ pc = "crashed" => error # "IndexError"

\* The located bed box gave a crop of SmallCrop rows, more than SmallCrop
\* columns wide, and the calibration raised on its empty interior.
SmallCropCrashed ==
    /\ pc = "crashed"
    /\ error = "IndexError"
    /\ bbox_norm = WholeImage["bedBox"]
    /\ box.y2 - box.y1 = SmallCrop
    /\ box.x2 - box.x1 > SmallCrop

\* The filtered delta and the returned height of every pixel of the crop,
\* in row-major order.
CropRows == 0..(box.y2 - box.y1 - 1)

CropCols == 0..(box.x2 - box.x1 - 1)

DeltaList == Flatten(DeltaNow, CropRows, CropCols)

HeightList == Flatten(cargo_height_m, CropRows, CropCols)

\* min(bedHeight, 0.80)
RimHeight ==
    IF RLt(spec.bedHeight, max_cargo_height_m) THEN spec.bedHeight
    ELSE max_cargo_height_m

\* The height is a non-decreasing function of delta over the pixels.
HeightMonotone(deltas, heights) ==
    \A i \in 1..Len(deltas), j \in 1..Len(deltas) :
        RLe(deltas[i], deltas[j]) => RLe(heights[i], heights[j])

\* In the floor-visible regime a pixel with delta = p5 has height 0.
FloorPixelsAtZero(deltas, heights) ==
    calib.regime = "floor_visible" =>
        \A i \in 1..Len(deltas) : deltas[i] = calib.p5 => heights[i] = Zero

\* C20, as stated: in both calibration regimes a pixel at rim level
\* (filtered delta = 0) receives the height min(bedHeight, 0.80), the
\* height is a non-decreasing function of delta, and in the floor-visible
\* regime a pixel with delta = p5 receives height 0.
RimPixelsAtBedHeight ==
    pc = "step5" =>
        LET deltas == DeltaList
            heights == HeightList
        IN  /\ \A i \in 1..Len(deltas) :
                   deltas[i] = Zero => heights[i] = RimHeight
            /\ HeightMonotone(deltas, heights)
            /\ FloorPixelsAtZero(deltas, heights)

\* C20, as the code has it: whenever the calibration returned a factor
\* (floor visible, or floor hidden with a positive range) a pixel at rim
\* level receives min(bedHeight, 0.80); when the floor-hidden regime
\* returns without a factor every pixel, those at rim level included,
\* receives 0.  In every case the height is non-decreasing in delta, and
\* in the floor-visible regime a pixel with delta = p5 receives 0.
RimPixelsAtBedHeightWhenCalibrated ==
    pc = "step5" =>
        LET deltas == DeltaList
            heights == HeightList
        IN  /\ \A i \in 1..Len(deltas) :
                   deltas[i] = Zero =>
                       heights[i] = IF depth_scale.some THEN RimHeight ELSE Zero
            /\ HeightMonotone(deltas, heights)
            /\ FloorPixelsAtZero(deltas, heights)

\* The floor-hidden regime returned a factor for a crop that has pixels at
\* rim level and pixels above it: the former stand at min(bedHeight, 0.80).
RimPixelCalibratedHidden ==
    /\ pc = "step5"
    /\ calib.regime = "floor_hidden"
    /\ depth_scale.some
    /\ \E i \in 1..Len(DeltaList) :
          DeltaList[i] = Zero /\ HeightList[i] = RimHeight
    /\ \E i \in 1..Len(DeltaList) : RLt(Zero, DeltaList[i])

\* max_cargo_height_m * bedLength * bedWidth: the bed filled to 0.80 m.
VolumeCap == RMul(max_cargo_height_m, RMul(spec.bedLength, spec.bedWidth))

\* C21: for every height map with values in [0, 0.80] (the maps of
\* HeightMaps), the bed of the truck and every grid size, the volume
\* compute_volume_grid returns satisfies
\* 0 <= volume <= 0.80 * bedLength * bedWidth, and the tonnage computed
\* from it is at most 0.80 * bedLength * bedWidth * density * packingDensity.
VolumeWithinBedCap ==
    /\ pc \in {"step6", "report"} =>
          /\ \A r \in DOMAIN cargo_height_m : \A c \in DOMAIN cargo_height_m[r] :
                 RLe(Zero, cargo_height_m[r][c])
                 /\ RLe(cargo_height_m[r][c], max_cargo_height_m)
          /\ RLe(Zero, volume)
          /\ RLe(volume, VolumeCap)
    /\ pc = "report" =>
          RLe(tonnage, RMul(VolumeCap, RMul(density.v, args.packing_density)))

\* A map of several pixels, all at 0.80 m, was integrated and weighed: the
\* volume and the tonnage stand exactly at their caps.
FullBedAtCap ==
    /\ pc = "report"
    /\ Rows(cargo_height_m) >= 2 /\ Cols(cargo_height_m) >= 2
    /\ volume = VolumeCap
    /\ tonnage = RMul(VolumeCap, RMul(density.v, args.packing_density))

(***************************************************************************)
(* box_overlay.py: main.  A dict parsed from an answer is a function from  *)
(* its keys; detect_geometry returns {} and estimate_fill returns None     *)
(* when the call or the parse fails, both of which main tests for truth,   *)
(* so the empty dict stands for either.  json.loads accepts the literal    *)
(* NaN, which is the value Undefined here.                                 *)
(***************************************************************************)
MaxEnsemble == 2

\* d.get(key, default)
dict_get(d, key, default) == IF key \in DOMAIN d THEN d[key] ELSE default

\* min(a, b) and max(a, b) of Python: the first argument unless the second
\* compares below (above) it, so that a NaN first argument is returned.
py_min(a, b) == IF RLt(b, a) THEN b ELSE a

py_max(a, b) == IF RLt(a, b) THEN b ELSE a

\* Answers of detect_geometry: plate box, tailgateTopY, tailgateBottomY,
\* cargoTopY.
Detection(plate, tg_top, tg_bot, cargo_top) ==
    [k \in {"plateBox", "tailgateTopY", "tailgateBottomY", "cargoTopY"} |->
        CASE k = "plateBox" -> plate
          [] k = "tailgateTopY" -> tg_top
          [] k = "tailgateBottomY" -> tg_bot
          [] OTHER -> cargo_top]

PlateOf4 == <<R(4, 10), R(7, 10), R(6, 10), R(8, 10)>>

Detections ==
    {EmptyDict,
     [k \in {"plateBox"} |-> PlateOf4],
     Detection(<<R(4, 10), R(7, 10), R(6, 10)>>, R(5, 10), R(6, 10), R(45, 100)),
     Detection(PlateOf4, R(5, 10), R(6, 10), R(45, 100)),
     Detection(PlateOf4, R(5, 10), R(6, 10), R(1, 10)),
     Detection(PlateOf4, R(5, 10), R(6, 10), R(7, 10)),
     Detection(PlateOf4, R(6, 10), R(5, 10), R(45, 100)),
     Detection(PlateOf4, Undefined, R(6, 10), R(45, 100))}

\* Answers of estimate_fill.
FillAnswers ==
    {EmptyDict,
     [k \in {"fillRatioL", "fillRatioW", "packingDensity"} |->
         CASE k = "fillRatioL" -> R(7, 10)
           [] k = "fillRatioW" -> R(8, 10)
           [] OTHER -> R(7, 10)],
     [k \in {"fillRatioL", "fillRatioW", "packingDensity"} |->
         CASE k = "fillRatioL" -> R(12, 10)
           [] k = "fillRatioW" -> R(8, 10)
           [] OTHER -> R(3, 10)],
     [k \in {"fillRatioL"} |-> R(6, 10)],
     [k \in {"fillRatioL", "fillRatioW", "packingDensity"} |->
         CASE k = "fillRatioL" -> R(7, 10)
           [] k = "fillRatioW" -> R(8, 10)
           [] OTHER -> Undefined]}

OverlayArgSet ==
    [image_exists : BOOLEAN, truck_class : {"4t", "99t"},
     material : {"As_gara", "unknown"}, ensemble : 0..MaxEnsemble]

\* Lines 239-250: the run is skipped (continue).
run_skipped(det) ==
    LET plate_box == dict_get(det, "plateBox", <<>>)
        tg_top == dict_get(det, "tailgateTopY", Zero)
        tg_bot == dict_get(det, "tailgateBottomY", Zero)
    IN  \/ Len(plate_box) # 4
        \/ RLe(tg_top, Zero) \/ RLe(tg_bot, Zero) \/ RLe(tg_bot, tg_top)

\* Lines 256-263: the cargo height of a run that is not skipped.
run_height(det, bed_height) ==
    LET tg_top == dict_get(det, "tailgateTopY", Zero)
        tg_bot == dict_get(det, "tailgateBottomY", Zero)
        cargo_top == dict_get(det, "cargoTopY", Zero)
        tg_height_norm == RSub(tg_bot, tg_top)
        m_per_norm == RDiv(bed_height, tg_height_norm)
        cargo_height_norm == RSub(tg_bot, cargo_top)
    IN  py_max(Zero, py_min(RMul(cargo_height_norm, m_per_norm), max_cargo_height_m))

\* height_m_list.sort()
sorted(list) == [k \in 1..Len(list) |-> KthSmallest(list, k - 1)]

\* avg_param(key, default, lo, hi) over the fills kept.
avg_param(fs, key, default, lo, hi) ==
    LET vals == [i \in 1..Len(fs) |->
                    py_min(py_max(dict_get(fs[i], key, default), lo), hi)]
    IN  RDiv(SeqSum(vals, 1, Len(vals)), R(Len(vals), 1))

\* packing = avg_param("packingDensity", 0.7, 0.5, 0.9)
packing_of(fs) == avg_param(fs, "packingDensity", R(7, 10), R(5, 10), R(9, 10))

\* round(x, ndigits) of a float that may be NaN.
round_float(x, ndigits) == IF Defined(x) THEN py_round(x, ndigits) ELSE x

\* Lines 214-235: the input checks.
OverlayChecks ==
    /\ overlay_pc = "start"
    /\ overlay_pc' =
          IF /\ overlay_args.image_exists
             /\ overlay_args.truck_class \in DOMAIN load_truck_specs
             /\ overlay_args.material \in DOMAIN MATERIAL_DENSITIES
          THEN "step1" ELSE "exit"
    /\ UNCHANGED <<depth_vars, overlay_args, run_i, detections, height_m_list,
                   last_det, fills, overlay_stdout>>

\* Lines 236-267: one run of the detection loop.
Step1_Detect(answers) ==
    /\ overlay_pc = "step1"
    /\ run_i < overlay_args.ensemble
    /\ \E det \in answers :
          /\ detections' = Append(detections, det)
          /\ IF run_skipped(det)
             THEN UNCHANGED <<height_m_list, last_det>>
             ELSE /\ height_m_list' =
                        Append(height_m_list,
                               run_height(det, load_truck_specs[overlay_args.truck_class].bedHeight))
                  /\ last_det' = det
    /\ run_i' = run_i + 1
    /\ UNCHANGED <<depth_vars, overlay_pc, overlay_args, fills, overlay_stdout>>

\* Lines 269-275: after the loop, exit without a height or sort the list.
\* The overlay image of lines 279-294 changes nothing of the result.
Step1_End ==
    /\ overlay_pc = "step1"
    /\ run_i >= overlay_args.ensemble
    /\ IF Len(height_m_list) = 0
       THEN overlay_pc' = "exit" /\ UNCHANGED <<height_m_list, run_i>>
       ELSE /\ overlay_pc' = "step2"
            /\ height_m_list' = sorted(height_m_list)
            /\ run_i' = 0
    /\ UNCHANGED <<depth_vars, overlay_args, detections, last_det, fills,
                   overlay_stdout>>

\* Lines 298-303: one run of the fill loop.
Step2_Fill(answers) ==
    /\ overlay_pc = "step2"
    /\ run_i < overlay_args.ensemble
    /\ \E fill \in answers :
          fills' = IF DOMAIN fill # {} THEN Append(fills, fill) ELSE fills
    /\ run_i' = run_i + 1
    /\ UNCHANGED <<depth_vars, overlay_pc, overlay_args, detections,
                   height_m_list, last_det, overlay_stdout>>

shape_factor == R(85, 100)

\* Lines 304-338: exit without a fill, or compute and print the record.
Step3_Report ==
    /\ overlay_pc = "step2"
    /\ run_i >= overlay_args.ensemble
    /\ IF Len(fills) = 0
       THEN overlay_pc' = "exit" /\ UNCHANGED overlay_stdout
       ELSE LET truck == load_truck_specs[overlay_args.truck_class]
                density_t == MATERIAL_DENSITIES[overlay_args.material]
                median_h == height_m_list[(Len(height_m_list) \div 2) + 1]
                fill_l == avg_param(fills, "fillRatioL", R(7, 10), Zero, R(1, 1))
                fill_w == avg_param(fills, "fillRatioW", R(8, 10), Zero, R(1, 1))
                packing == packing_of(fills)
                vol == RMul(RMul(RMul(RMul(RMul(truck.bedLength, truck.bedWidth),
                                           median_h), fill_l), fill_w),
                            shape_factor)
                tons == RMul(RMul(vol, density_t), packing)
                plate == dict_get(last_det, "plateBox", <<>>)
            IN  /\ overlay_pc' = "done"
                /\ overlay_stdout' = Append(overlay_stdout,
                      [method |-> "box-overlay",
                       truck_class |-> overlay_args.truck_class,
                       material_type |-> overlay_args.material,
                       plate_box |-> [i \in 1..Len(plate) |-> py_round(plate[i], 4)],
                       height_m |-> round_float(median_h, 3),
                       fill_ratio_l |-> round_float(fill_l, 3),
                       fill_ratio_w |-> round_float(fill_w, 3),
                       packing_density |-> round_float(packing, 3),
                       estimated_volume_m3 |-> round_float(vol, 4),
                       estimated_tonnage |-> round_float(tons, 2),
                       density |-> density_t,
                       reasoning |-> dict_get(fills[1], "reasoning", "")])
    /\ UNCHANGED <<depth_vars, overlay_args, run_i, detections, height_m_list,
                   last_det, fills>>

InitOverlay ==
    /\ pc = "start" /\ args = ValidArgs /\ error = ""
    /\ spec = [bedLength |-> Zero, bedWidth |-> Zero, bedHeight |-> Zero]
    /\ density = NoFactor /\ depth_map = NoMap /\ response = NoResponse
    /\ regions = EmptyDict /\ bbox_norm = <<>> /\ box = NoBox
    /\ floor_plane = <<>> /\ cargo_height_m = <<>> /\ depth_scale = NoFactor
    /\ calib = NoCalib /\ volume = Zero /\ avg_height_m = Zero
    /\ tonnage = Zero /\ stdout = <<>> /\ depth_calls = 0
    /\ locator_calls = 0 /\ grid_shape = NoGrid
    /\ \E a \in OverlayArgSet : OverlayAtStart(a)

NextOverlay ==
    \/ OverlayChecks
    \/ Step1_Detect(Detections)
    \/ Step1_End
    \/ Step2_Fill(FillAnswers)
    \/ Step3_Report

SpecOverlay == InitOverlay /\ [][NextOverlay]_vars

\* A detection is accepted: a plate box of 4 values, tailgateTopY > 0,
\* tailgateBottomY > 0 and tailgateTopY < tailgateBottomY.
detection_accepted(det) ==
    /\ Len(dict_get(det, "plateBox", <<>>)) = 4
    /\ RLt(Zero, dict_get(det, "tailgateTopY", Zero))
    /\ RLt(Zero, dict_get(det, "tailgateBottomY", Zero))
    /\ RLt(dict_get(det, "tailgateTopY", Zero), dict_get(det, "tailgateBottomY", Zero))

\* C22: box_overlay's main prints a result record only if at least one of
\* the geometry-detection runs was accepted and at least one fill estimate
\* succeeded, and otherwise exits with an error; the reported height is one
\* of the accepted runs' heights (rounded for output) and lies in [0, 0.8],
\* and the packing density used lies in [0.5, 0.9].
RecordOnlyFromAcceptedRuns ==
    LET accepted == {i \in 1..Len(detections) : detection_accepted(detections[i])}
        bed_height == load_truck_specs[overlay_args.truck_class].bedHeight
    IN  /\ overlay_pc = "done" =>
              /\ Len(overlay_stdout) = 1
              /\ accepted # {}
              /\ Len(fills) >= 1
              /\ \E i \in accepted :
                     overlay_stdout[1].height_m =
                         py_round(run_height(detections[i], bed_height), 3)
              /\ RLe(Zero, overlay_stdout[1].height_m)
              /\ RLe(overlay_stdout[1].height_m, max_cargo_height_m)
              /\ RLe(R(5, 10), packing_of(fills))
              /\ RLe(packing_of(fills), R(9, 10))
        /\ overlay_pc # "done" => overlay_stdout = <<>>

\* A record was printed although the only detection had tailgateTopY = NaN
\* (not accepted) and the only fill estimate had packingDensity = NaN: the
\* packing density used and the tonnage are NaN.
RecordPrintedOnNaNAnswers ==
    /\ overlay_pc = "done"
    /\ Len(detections) = 1
    /\ ~detection_accepted(detections[1])
    /\ Len(fills) = 1
    /\ ~Defined(packing_of(fills))
    /\ ~Defined(overlay_stdout[1].estimated_tonnage)
    /\ overlay_stdout[1].height_m = Zero

=============================================================================
